---- MODULE Spec2Model ----
(***************************************************************************)
(* A model of pyvideo_import.importers: the Conference.pyvidify pipeline   *)
(* (downloader -> scratch directory -> extract / filter / transform /      *)
(* postprocess -> catalog files) and the YouTubeLinkBackfiller.            *)
(*                                                                         *)
(* Text is modelled as a sequence of one-character strings, so that the    *)
(* conversions of the code (re.sub + lower, str.replace, slugify, split,   *)
(* fuzz.ratio) are computed rather than assumed.                           *)
(***************************************************************************)
EXTENDS Integers, Sequences, FiniteSets, TLC

VARIABLES
    \* ---- Conference.pyvidify -------------------------------------------
    pc,          \* position of pyvidify: idle, download, transform, extract, write, done, failed
    conf,        \* the Conference object (downloader, transformer, filter_func, postprocess)
    net,         \* what the remote answers to the downloader
    source,      \* the raw records the remote holds, in file / list order
    outExisted,  \* the output directory existed before the run
    scratch,     \* the TemporaryDirectory: [exists, files]
    outdir,      \* what this run wrote: [created, category, videos]
    sub,         \* position inside one iteration of the extract loop
    i,           \* index of the raw record the extract loop is at
    j,           \* index of the postprocess step about to run
    video,       \* the loop variable `video`
    talk_list,   \* the list extract_talk_list is building
    w,           \* index of the record transform() writes next
    err,         \* the exception that ended the run ("none" when none)
    log,         \* history: the calls made on raw records, in order
    \* ---- YouTubeLinkBackfiller ------------------------------------------
    platform,    \* what the video platform lists under each URL (extract_info)
    cacheFile,   \* /tmp/ytlbf.json: [exists, data]
    bf,          \* the Backfiller objects: name -> [conference_name, url, _data]
    fuzzEmpty,   \* fuzz.ratio of two empty strings under the installed thefuzz
    populated,   \* history: per Backfiller, how often _data was (re)populated in this process
    last         \* history: the last backfill_video_url call and its outcome

pvars == <<pc, conf, net, source, outExisted, scratch, outdir, sub, i, j, video,
           talk_list, w, err, log>>
bvars == <<platform, cacheFile, bf, fuzzEmpty, populated, last>>
vars == <<pc, conf, net, source, outExisted, scratch, outdir, sub, i, j, video,
          talk_list, w, err, log, platform, cacheFile, bf, fuzzEmpty, populated, last>>

----------------------------------------------------------------------------
(* Text *)

\* the characters re's \w matches (letters, digits and the underscore)
IsWord(c) == c \in {"a", "b", "c", "d", "e", "x", "A", "B", "_", "1"}

\* the characters slugify keeps (letters and digits)
IsAlnum(c) == c \in {"a", "b", "c", "d", "e", "x", "A", "B", "1"}

\* str.lower on one character
ToLower(c) == IF c = "A" THEN "a" ELSE IF c = "B" THEN "b" ELSE c

RECURSIVE StripNonWord(_)
\* re.sub(r"[^\w]", "", s)
StripNonWord(s) ==
    IF s = <<>> THEN <<>>
    ELSE IF IsWord(Head(s)) THEN <<Head(s)>> \o StripNonWord(Tail(s))
    ELSE StripNonWord(Tail(s))

\* str.lower
LowerStr(s) == [k \in 1..Len(s) |-> ToLower(s[k])]

\* re.sub(r"[^\w]", "", s).lower()
NormalizeTitle(s) == LowerStr(StripNonWord(s))

RECURSIVE SlugFrom(_, _, _)
\* slugify from position s on: every run of characters other than letters and
\* digits becomes one "-", leading and trailing runs are dropped, letters are
\* lowercased (pend: a run is pending; started: a kept character was output)
SlugFrom(s, pend, started) ==
    IF s = <<>> THEN <<>>
    ELSE IF IsAlnum(Head(s))
         THEN (IF pend /\ started THEN <<"-">> ELSE <<>>)
              \o <<ToLower(Head(s))>> \o SlugFrom(Tail(s), FALSE, TRUE)
         ELSE SlugFrom(Tail(s), TRUE, started)

\* slugify(title)
Slugify(s) == SlugFrom(s, FALSE, FALSE)

\* s starts with the text p
StartsWith(s, p) == Len(p) <= Len(s) /\ SubSeq(s, 1, Len(p)) = p

RECURSIVE Replace(_, _)
\* s.replace(old, ""): every non-overlapping occurrence of old, leftmost first,
\* is removed; an empty old removes nothing
Replace(s, old) ==
    IF old = <<>> \/ s = <<>> THEN s
    ELSE IF StartsWith(s, old) THEN Replace(SubSeq(s, Len(old) + 1, Len(s)), old)
    ELSE <<Head(s)>> \o Replace(Tail(s), old)

RECURSIVE ReplaceAll(_, _)
\* for speaker_name in obj["speakers"]: t = t.replace(speaker_name, "")
ReplaceAll(s, olds) ==
    IF olds = <<>> THEN s ELSE ReplaceAll(Replace(s, Head(olds)), Tail(olds))

RECURSIVE Find(_, _)
\* the number of characters of s before the first occurrence of p, Len(s) + 1
\* when p does not occur
Find(s, p) ==
    IF StartsWith(s, p) THEN 0
    ELSE IF s = <<>> THEN 1
    ELSE 1 + Find(Tail(s), p)

VEq == <<"v", "=">>

HasVEq(url) == Find(url, VEq) <= Len(url)

\* url.split("v=")[1]: the text between the first "v=" and the next one (or the
\* end); defined when the url holds a "v="
SplitV1(url) ==
    LET rest == SubSeq(url, Find(url, VEq) + Len(VEq) + 1, Len(url))
        stop == Find(rest, VEq)
    IN  IF stop <= Len(rest) THEN SubSeq(rest, 1, stop) ELSE rest

RECURSIVE LCS(_, _)
\* length of a longest common subsequence
LCS(s, t) ==
    IF s = <<>> \/ t = <<>> THEN 0
    ELSE IF Head(s) = Head(t) THEN 1 + LCS(Tail(s), Tail(t))
    ELSE LET a == LCS(Tail(s), t)
             b == LCS(s, Tail(t))
         IN  IF a >= b THEN a ELSE b

\* int(round(100 * num / den)), Python's round: halves go to the even integer
RoundPct(num, den) ==
    LET q == (100 * num) \div den
        r == (100 * num) % den
    IN  IF 2 * r < den THEN q
        ELSE IF 2 * r > den THEN q + 1
        ELSE IF q % 2 = 0 THEN q ELSE q + 1

\* fuzz.ratio(s, t): the normalized indel similarity, 2 * LCS / (|s| + |t|), as
\* a rounded percentage; e is what the installed library answers for two empty
\* strings
FuzzRatio(s, t, e) ==
    IF Len(s) + Len(t) = 0 THEN e ELSE RoundPct(2 * LCS(s, t), Len(s) + Len(t))

----------------------------------------------------------------------------
(* Bounds and inputs of the pipeline *)

\* the largest number of raw records (files, or entries of the document) a source holds
MaxRecords == 2

\* titles: the first two differ and have the same slug, the third does not
TitleAB == <<"A", " ", "b">>
TitleDash == <<"a", "-", "b">>
TitleC == <<"c">>

\* a JSON value the transform query can yield: a mapping with a title, a mapping
\* without one, or something that is no mapping
MapVal(t) == [kind |-> "map", hasTitle |-> TRUE, title |-> t]
NoTitleVal == [kind |-> "map", hasTitle |-> FALSE, title |-> <<>>]
ScalarVal == [kind |-> "scalar", hasTitle |-> FALSE, title |-> <<>>]

\* what the jq program does on one raw record: a runtime error, or its outputs in order
JqRuns ==
    {[error |-> TRUE, outs |-> <<>>]} \cup
    {[error |-> FALSE, outs |-> o] :
        o \in {<<>>, <<MapVal(TitleAB)>>, <<MapVal(TitleDash)>>, <<MapVal(TitleC)>>,
               <<MapVal(TitleC), MapVal(TitleAB)>>, <<NoTitleVal>>, <<ScalarVal>>}}

\* a raw record: whether its text parses (json.load, yaml.load, frontmatter.load),
\* what filter_func answers on it, and what the jq_filter does on it
RawRecords ==
    {[parses |-> FALSE, keep |-> TRUE, jq |-> [error |-> TRUE, outs |-> <<>>]]} \cup
    {[parses |-> TRUE, keep |-> TRUE, jq |-> r] : r \in JqRuns} \cup
    {[parses |-> TRUE, keep |-> FALSE, jq |-> r] :
        r \in {[error |-> TRUE, outs |-> <<>>], [error |-> FALSE, outs |-> <<MapVal(TitleAB)>>]}}

Sources == UNION {[1..n -> RawRecords] : n \in 0..MaxRecords}

\* the Conference objects, after examples/conferences.py
Conferences ==
    { [downloader |-> "JSONAPIDownloader", transformer |-> "JSONTransformer",
       filter_func |-> TRUE, postprocess |-> <<"convert", "backfill">>],
      [downloader |-> "JSONAPIDownloader", transformer |-> "JSONTransformer",
       filter_func |-> FALSE, postprocess |-> <<"backfill", "backfill">>],
      [downloader |-> "GitDownloader", transformer |-> "MultiJSONTransformer",
       filter_func |-> TRUE, postprocess |-> <<"convert">>],
      [downloader |-> "GitDownloader", transformer |-> "FrontmatterTransformer",
       filter_func |-> TRUE, postprocess |-> <<>>],
      [downloader |-> "YouTubeDownloader", transformer |-> "JSONTransformer",
       filter_func |-> FALSE, postprocess |-> <<>>] }

\* what the remote can answer to a downloader: the source, an error response
\* whose body is not JSON, an error response whose body is an empty JSON list,
\* or nothing (unreachable)
Answers(c) ==
    IF c.downloader = "JSONAPIDownloader" THEN {"ok", "http_error_html", "http_error_json", "unreachable"}
    ELSE IF c.downloader = "GitDownloader" THEN {"ok", "unreachable"}
    ELSE {"ok"}

NoVideo == [kind |-> "none", hasTitle |-> FALSE, title |-> <<>>, trail |-> <<>>, src |-> 0]
NoScratch == [exists |-> FALSE, files |-> "none"]
NoOutdir == [created |-> FALSE, category |-> FALSE, videos |-> {}]

\* the single-document transformers read one file; the others one file per record
IsSingle(c) == c.transformer \in {"JSONTransformer", "YamlTransformer"}

----------------------------------------------------------------------------
(* Conference.pyvidify *)

PInit ==
    /\ pc = "idle"
    /\ conf \in Conferences
    /\ net \in Answers(conf)
    /\ source \in Sources
    /\ outExisted \in BOOLEAN
    /\ scratch = NoScratch
    /\ outdir = NoOutdir
    /\ sub = "none"
    /\ i = 0
    /\ j = 0
    /\ video = NoVideo
    /\ talk_list = <<>>
    /\ w = 0
    /\ err = "none"
    /\ log = <<>>

\* TemporaryDirectory.__exit__: the directory and everything in it is removed
TemporaryDirectoryExit == NoScratch

\* an exception leaves the with block of pyvidify without cleaning up (not the code)
RaiseLeaking(e) ==
    /\ pc' = "failed"
    /\ err' = e
    /\ scratch' = scratch

\* an exception propagates out of pyvidify through the with block, which removes
\* the scratch directory; nothing catches it
Raise(e) ==
    /\ pc' = "failed"
    /\ err' = e
    /\ scratch' = TemporaryDirectoryExit

\* with TemporaryDirectory() as tmpdir:
PyvidifyEnter ==
    /\ pc = "idle"
    /\ pc' = "download"
    /\ scratch' = [exists |-> TRUE, files |-> "empty"]
    /\ UNCHANGED <<conf, net, source, outExisted, outdir, sub, i, j, video, talk_list,
                   w, err, log>>
    /\ UNCHANGED bvars

\* GitDownloader.download: Repo.clone_from raises when the remote or ref is not there
GitDownload ==
    /\ pc = "download"
    /\ conf.downloader = "GitDownloader"
    /\ IF net = "unreachable"
       THEN Raise("GitCommandError")
       ELSE /\ pc' = "transform"
            /\ scratch' = [scratch EXCEPT !.files = "source"]
            /\ err' = err
    /\ UNCHANGED <<conf, net, source, outExisted, outdir, sub, i, j, video, talk_list,
                   w, log>>
    /\ UNCHANGED bvars

\* JSONAPIDownloader.download: requests.get raises on a network error only; the
\* body of any response, whatever its status, is written to save_as
JSONAPIDownload ==
    /\ pc = "download"
    /\ conf.downloader = "JSONAPIDownloader"
    /\ IF net = "unreachable"
       THEN Raise("ConnectionError")
       ELSE /\ pc' = "transform"
            /\ scratch' = [scratch EXCEPT !.files = IF net = "ok" THEN "source" ELSE net]
            /\ err' = err
    /\ UNCHANGED <<conf, net, source, outExisted, outdir, sub, i, j, video, talk_list,
                   w, log>>
    /\ UNCHANGED bvars

\* YouTubeDownloader.download
YouTubeDownload ==
    /\ pc = "download"
    /\ conf.downloader = "YouTubeDownloader"
    /\ Raise("NotImplementedError")
    /\ UNCHANGED <<conf, net, source, outExisted, outdir, sub, i, j, video, talk_list,
                   w, log>>
    /\ UNCHANGED bvars

\* BaseTransformer.transform up to the loop: outdir.mkdir() raises when the
\* directory exists; then videos/ and category.json are written
TransformBegin ==
    /\ pc = "transform"
    /\ IF outExisted
       THEN /\ Raise("FileExistsError")
            /\ UNCHANGED <<outdir, sub>>
       ELSE /\ pc' = "extract"
            /\ outdir' = [created |-> TRUE, category |-> TRUE, videos |-> {}]
            /\ sub' = "open"
            /\ UNCHANGED <<scratch, err>>
    /\ UNCHANGED <<conf, net, source, outExisted, i, j, video, talk_list, w, log>>
    /\ UNCHANGED bvars

\* the raw records in the scratch directory, in the order the extractor visits them
ScratchRecords == IF scratch.files = "source" THEN source ELSE <<>>

\* json.load / yaml.load of the single document succeeds: a syntax error anywhere
\* in the document fails the whole load
DocumentParses ==
    \/ scratch.files = "http_error_json"
    \/ scratch.files = "source" /\ \A k \in 1..Len(source) : source[k].parses

\* where an iteration of the extract loop starts: the multi-file loop loads a file first
LoopStart == IF IsSingle(conf) THEN "filter" ELSE "load"

\* JSONTransformer.extract_talk_list up to its loop: load the document, apply
\* the talk_list_filter
JSONExtractOpen ==
    /\ pc = "extract" /\ sub = "open"
    /\ IsSingle(conf)
    /\ IF DocumentParses
       THEN /\ sub' = "filter"
            /\ i' = 1
            /\ UNCHANGED <<pc, err, scratch>>
       ELSE /\ Raise("JSONDecodeError")
            /\ UNCHANGED <<sub, i>>
    /\ UNCHANGED <<conf, net, source, outExisted, outdir, j, video, talk_list, w, log>>
    /\ UNCHANGED bvars

\* MultiJSONTransformer.extract_talk_list: Path(input_directory).glob(path_glob)
MultiExtractGlob ==
    /\ pc = "extract" /\ sub = "open"
    /\ ~IsSingle(conf)
    /\ sub' = "load"
    /\ i' = 1
    /\ UNCHANGED <<pc, err, scratch>>
    /\ UNCHANGED <<conf, net, source, outExisted, outdir, j, video, talk_list, w, log>>
    /\ UNCHANGED bvars

\* MultiJSONTransformer.extract_talk_list: video = self.load(f), then
\* convert_talk_object_to_dict
LoopLoad ==
    /\ pc = "extract" /\ sub = "load"
    /\ i <= Len(ScratchRecords)
    /\ IF ScratchRecords[i].parses
       THEN /\ sub' = "filter"
            /\ UNCHANGED <<pc, err, scratch>>
       ELSE /\ Raise("JSONDecodeError")
            /\ sub' = sub
    /\ UNCHANGED <<conf, net, source, outExisted, outdir, i, j, video, talk_list, w, log>>
    /\ UNCHANGED bvars

\* a record the predicate rejects is transformed all the same (not the code)
LoopFilterIgnoring ==
    /\ pc = "extract" /\ sub = "filter"
    /\ i <= Len(ScratchRecords)
    /\ sub' = "transform"
    /\ i' = i
    /\ log' = IF conf.filter_func THEN Append(log, <<"filter", i, 0>>) ELSE log
    /\ UNCHANGED <<pc, conf, net, source, outExisted, scratch, outdir, j, video,
                   talk_list, w, err>>
    /\ UNCHANGED bvars

\* if self.filter_func and not self.filter_func(video): continue
LoopFilter ==
    /\ pc = "extract" /\ sub = "filter"
    /\ i <= Len(ScratchRecords)
    /\ IF conf.filter_func /\ ~ScratchRecords[i].keep
       THEN /\ i' = i + 1
            /\ sub' = LoopStart
       ELSE /\ i' = i
            /\ sub' = "transform"
    /\ log' = IF conf.filter_func THEN Append(log, <<"filter", i, 0>>) ELSE log
    /\ UNCHANGED <<pc, conf, net, source, outExisted, scratch, outdir, j, video,
                   talk_list, w, err>>
    /\ UNCHANGED bvars

\* a query without results drops the record instead of raising (not the code)
LoopTransformSkipping ==
    /\ pc = "extract" /\ sub = "transform"
    /\ LET run == ScratchRecords[i].jq
       IN  IF run.error
           THEN /\ Raise("ValueError")
                /\ UNCHANGED <<sub, i, j, video>>
           ELSE IF run.outs = <<>>
           THEN /\ i' = i + 1
                /\ sub' = LoopStart
                /\ UNCHANGED <<pc, err, scratch, j, video>>
           ELSE /\ video' = [kind |-> run.outs[1].kind, hasTitle |-> run.outs[1].hasTitle,
                             title |-> run.outs[1].title, trail |-> <<>>, src |-> i]
                /\ sub' = "post"
                /\ j' = 1
                /\ UNCHANGED <<pc, err, scratch, i>>
    /\ log' = Append(log, <<"transform", i, 0>>)
    /\ UNCHANGED <<conf, net, source, outExisted, outdir, talk_list, w>>
    /\ UNCHANGED bvars

\* transform_talk_json: jq.first(jq_filter, text=json.dumps(talk_json)). jq raises
\* on a runtime error of the program; first() is next() on the outputs, so it
\* raises StopIteration when there is none and returns the first one otherwise,
\* whatever it is
LoopTransform ==
    /\ pc = "extract" /\ sub = "transform"
    /\ LET run == ScratchRecords[i].jq
       IN  IF run.error
           THEN /\ Raise("ValueError")
                /\ UNCHANGED <<sub, j, video>>
           ELSE IF run.outs = <<>>
           THEN /\ Raise("StopIteration")
                /\ UNCHANGED <<sub, j, video>>
           ELSE /\ video' = [kind |-> run.outs[1].kind, hasTitle |-> run.outs[1].hasTitle,
                             title |-> run.outs[1].title, trail |-> <<>>, src |-> i]
                /\ sub' = "post"
                /\ j' = 1
                /\ UNCHANGED <<pc, err, scratch>>
    /\ log' = Append(log, <<"transform", i, 0>>)
    /\ UNCHANGED <<conf, net, source, outExisted, outdir, i, talk_list, w>>
    /\ UNCHANGED bvars

\* what a postprocess step raises on obj, "none" when it returns:
\* convert_description_from_html_to_rst reads obj['description'],
\* backfill_video_url reads obj["title"]
StepRaises(step, obj) ==
    IF obj.kind # "map" THEN "TypeError"
    ELSE IF step = "backfill" /\ ~obj.hasTitle THEN "KeyError"
    ELSE "none"

\* every step is given the transform result, not what the step before it
\* returned (not the code)
LoopPostprocessUnchained ==
    /\ pc = "extract" /\ sub = "post"
    /\ j <= Len(conf.postprocess)
    /\ LET step == conf.postprocess[j]
       IN  IF StepRaises(step, video) # "none"
           THEN /\ Raise(StepRaises(step, video))
                /\ UNCHANGED <<j, video>>
           ELSE /\ video' = [video EXCEPT !.trail = <<step>>]
                /\ j' = j + 1
                /\ UNCHANGED <<pc, err, scratch>>
    /\ log' = Append(log, <<"post", i, j>>)
    /\ UNCHANGED <<conf, net, source, outExisted, outdir, sub, i, talk_list, w>>
    /\ UNCHANGED bvars

\* for func in (self.postprocess or []): video = func(video)
LoopPostprocess ==
    /\ pc = "extract" /\ sub = "post"
    /\ j <= Len(conf.postprocess)
    /\ LET step == conf.postprocess[j]
       IN  IF StepRaises(step, video) # "none"
           THEN /\ Raise(StepRaises(step, video))
                /\ UNCHANGED <<j, video>>
           ELSE /\ video' = [video EXCEPT !.trail = Append(@, step)]
                /\ j' = j + 1
                /\ UNCHANGED <<pc, err, scratch>>
    /\ log' = Append(log, <<"post", i, j>>)
    /\ UNCHANGED <<conf, net, source, outExisted, outdir, sub, i, talk_list, w>>
    /\ UNCHANGED bvars

\* talk_list.append(video), and on to the next record
LoopAppend ==
    /\ pc = "extract" /\ sub = "post"
    /\ j > Len(conf.postprocess)
    /\ talk_list' = Append(talk_list, video)
    /\ i' = i + 1
    /\ sub' = LoopStart
    /\ log' = Append(log, <<"append", i, 0>>)
    /\ UNCHANGED <<pc, conf, net, source, outExisted, scratch, outdir, j, video, w,
                   err>>
    /\ UNCHANGED bvars

\* return talk_list: the loop of transform() starts
ExtractReturn ==
    /\ pc = "extract" /\ sub \in {"load", "filter"}
    /\ i > Len(ScratchRecords)
    /\ pc' = "write"
    /\ sub' = "none"
    /\ w' = 1
    /\ UNCHANGED <<conf, net, source, outExisted, scratch, outdir, i, j, video,
                   talk_list, err, log>>
    /\ UNCHANGED bvars

\* open(outfile, "w") then json.dump: the file of that name is created or truncated
WriteFile(files, name, content) ==
    {f \in files : f.name # name} \cup {[name |-> name, content |-> content]}

\* the body of the loop of transform(): slugify(video_json["title"]) raises on a
\* value that is no mapping or has no title; the file is written over whatever
\* holds that name
WriteTalk ==
    /\ pc = "write"
    /\ w <= Len(talk_list)
    /\ LET v == talk_list[w]
       IN  IF v.kind # "map"
           THEN /\ Raise("TypeError")
                /\ UNCHANGED <<outdir, w>>
           ELSE IF ~v.hasTitle
           THEN /\ Raise("KeyError")
                /\ UNCHANGED <<outdir, w>>
           ELSE /\ outdir' = [outdir EXCEPT !.videos = WriteFile(@, Slugify(v.title), v)]
                /\ w' = w + 1
                /\ UNCHANGED <<pc, err, scratch>>
    /\ UNCHANGED <<conf, net, source, outExisted, sub, i, j, video, talk_list, log>>
    /\ UNCHANGED bvars

\* transform() returns and the with block of pyvidify ends
PyvidifyExit ==
    /\ pc = "write"
    /\ w > Len(talk_list)
    /\ pc' = "done"
    /\ scratch' = TemporaryDirectoryExit
    /\ UNCHANGED <<conf, net, source, outExisted, outdir, sub, i, j, video, talk_list,
                   w, err, log>>
    /\ UNCHANGED bvars

----------------------------------------------------------------------------
(* Bounds and inputs of the backfiller *)

\* the largest number of entries of a listing
MaxEntries == 2

\* the largest number of times one Backfiller populates _data in one process
\* run that the model follows
MaxPopulate == 2

\* if fuzz.ratio(...) > 75
Threshold == 75

ConferenceName == <<"1">>
Speaker == <<"e">>

UrlA == <<"w", "v", "=", "a">>
UrlB == <<"w", "v", "=", "b">>
UrlC == <<"w", "v", "=", "c", "&", "v", "=", "d">>
UrlNoV == <<"w", "/", "d">>

NullEntry == [null |-> TRUE, title |-> <<>>, webpage_url |-> <<>>]
Entry(t, u) == [null |-> FALSE, title |-> t, webpage_url |-> u]

\* the entries a listing is made of; against the talk title "abcd" they score
\* 75, 89, 100 (after the conference name and the speaker are taken out), 100
\* and 0, and the last one normalizes to the empty string
EntryPool ==
    { NullEntry,
      Entry(<<"a", "b", "c", "x">>, UrlA),
      Entry(<<"A", "b", "c", "d", "x">>, UrlB),
      Entry(<<"1", " ", "a", "b", "-", "c", "D", " ", "e">>, UrlC),
      Entry(<<"a", "b", "c", "d">>, UrlNoV),
      Entry(<<"1", "!">>, UrlA) }

\* json values of a listing: None, or a dict with its entries
NullData == [kind |-> "null", entries |-> <<>>]
Listing(es) == [kind |-> "dict", entries |-> es]

Listings == {Listing(es) : es \in UNION {[1..n -> EntryPool] : n \in 0..MaxEntries}}

\* the playlist URLs of the Backfiller objects
PlaylistUrls == {"U1", "U2"}

\* the Backfiller objects of one conference: as in pycon_uk_2022, one per playlist
Backfillers == {"b1", "b2"}
UrlOf(b) == IF b = "b1" THEN "U1" ELSE "U2"

\* the talk records handed to backfill_video_url
Talk(t, sp, vs, th) == [title |-> t, speakers |-> sp, videos |-> vs, thumbnail_url |-> th]
Talks ==
    { Talk(<<"a", "b", "c", "d">>, <<>>, <<>>, <<>>),
      Talk(<<"A", "b", " ", "c", "d", "!">>, <<Speaker>>,
           <<[type |-> "vimeo", url |-> UrlNoV]>>, <<"t">>),
      Talk(<<"!", "?">>, <<>>, <<>>, <<>>) }

NoCache == [exists |-> FALSE, data |-> NullData]
NoCall == [b |-> "none", obj |-> Talk(<<>>, <<>>, <<>>, <<>>), data |-> NullData,
           result |-> Talk(<<>>, <<>>, <<>>, <<>>), raised |-> "none", match |-> 0,
           scanned |-> 0, populatedNow |-> FALSE]

----------------------------------------------------------------------------
(* YouTubeLinkBackfiller *)

\* `not self._data`: None is falsy; a dict with an "entries" key is not
Falsy(d) == d.kind = "null"

\* fetch_data: if not self._data
NeedsFetch(b) == Falsy(bf[b]._data)

\* fetch_data: Path(cache_file).exists(), whatever URL the file was written for
CacheHit(b) == cacheFile.exists

\* fetch_data: the value it returns; read from the cache file when there is one,
\* else from the platform
FetchedData(b) ==
    IF ~NeedsFetch(b) THEN bf[b]._data
    ELSE IF CacheHit(b) THEN cacheFile.data
    ELSE platform[bf[b].url]

\* fetch_data: the cache file after the call; written only after a platform fetch
CacheAfterFetch(b) ==
    IF NeedsFetch(b) /\ ~CacheHit(b)
    THEN [exists |-> TRUE, data |-> platform[bf[b].url]]
    ELSE cacheFile

\* backfill_video_url: modified_talk_title
ModifiedTalkTitle(obj) == NormalizeTitle(obj.title)

\* backfill_video_url: modified_video_title of an entry that is not None
ModifiedVideoTitle(entry, name, obj) ==
    NormalizeTitle(ReplaceAll(Replace(entry.title, name), obj.speakers))

\* the similarity of an entry's title to the talk's
Score(entry, name, obj) ==
    FuzzRatio(ModifiedTalkTitle(obj), ModifiedVideoTitle(entry, name, obj), fuzzEmpty)

\* an entry scoring exactly the threshold is taken too (not the code)
CrossesInclusive(entry, name, obj) == Score(entry, name, obj) >= Threshold

\* if fuzz.ratio(modified_talk_title, modified_video_title) > 75
Crosses(entry, name, obj) == Score(entry, name, obj) > Threshold

RECURSIVE ScanFromNoBreak(_, _, _, _)
\* the loop without its break: the last entry that crosses wins (not the code)
ScanFromNoBreak(entries, k, name, obj) ==
    IF k > Len(entries) THEN 0
    ELSE LET later == ScanFromNoBreak(entries, k + 1, name, obj)
         IN  IF later # 0 THEN later
             ELSE IF ~entries[k].null /\ Score(entries[k], name, obj) > Threshold THEN k
             ELSE 0

RECURSIVE ScanFrom(_, _, _, _)
\* the for loop of backfill_video_url from entry k on: the index of the entry it
\* breaks at, 0 when it runs to the end; None entries are skipped
ScanFrom(entries, k, name, obj) ==
    IF k > Len(entries) THEN 0
    ELSE IF entries[k].null THEN ScanFrom(entries, k + 1, name, obj)
    ELSE IF Crosses(entries[k], name, obj) THEN k
    ELSE ScanFrom(entries, k + 1, name, obj)

ThumbPrefix == <<"https://i.ytimg.com/vi/">>
ThumbSuffix == <<"/hqdefault.jpg">>

\* when nothing matches, the video fields are reset (not the code)
BackfillOutcomeClearing(b, obj, data) ==
    IF data.kind = "null"
    THEN [result |-> obj, raised |-> "TypeError", match |-> 0, scanned |-> 0]
    ELSE LET m == ScanFrom(data.entries, 1, bf[b].conference_name, obj)
             url == data.entries[m].webpage_url
             withVideo == [obj EXCEPT !.videos = <<[type |-> "youtube", url |-> url]>>]
         IN  IF m = 0
             THEN [result |-> [obj EXCEPT !.videos = <<>>, !.thumbnail_url = <<>>],
                   raised |-> "none", match |-> 0, scanned |-> Len(data.entries)]
             ELSE IF ~HasVEq(url)
             THEN [result |-> withVideo, raised |-> "IndexError", match |-> m,
                   scanned |-> m]
             ELSE [result |-> [withVideo EXCEPT !.thumbnail_url =
                                  ThumbPrefix \o SplitV1(url) \o ThumbSuffix],
                   raised |-> "none", match |-> m, scanned |-> m]

\* backfill_video_url from data on: data['entries'] raises on None; the scan;
\* on a match obj["videos"] is set first and the thumbnail after it, which
\* raises IndexError when the url holds no "v="
BackfillOutcome(b, obj, data) ==
    IF data.kind = "null"
    THEN [result |-> obj, raised |-> "TypeError", match |-> 0, scanned |-> 0]
    ELSE LET m == ScanFrom(data.entries, 1, bf[b].conference_name, obj)
             url == data.entries[m].webpage_url
             withVideo == [obj EXCEPT !.videos = <<[type |-> "youtube", url |-> url]>>]
         IN  IF m = 0
             THEN [result |-> obj, raised |-> "none", match |-> 0,
                   scanned |-> Len(data.entries)]
             ELSE IF ~HasVEq(url)
             THEN [result |-> withVideo, raised |-> "IndexError", match |-> m,
                   scanned |-> m]
             ELSE [result |-> [withVideo EXCEPT !.thumbnail_url =
                                  ThumbPrefix \o SplitV1(url) \o ThumbSuffix],
                   raised |-> "none", match |-> m, scanned |-> m]

\* one call of backfill_video_url on Backfiller b, fetch_data included
BackfillVideoUrl(b, obj) ==
    /\ populated[b] < MaxPopulate
    /\ LET data == FetchedData(b)
           out == BackfillOutcome(b, obj, data)
       IN  /\ bf' = [bf EXCEPT ![b]._data = data]
           /\ cacheFile' = CacheAfterFetch(b)
           /\ populated' = [populated EXCEPT ![b] = IF NeedsFetch(b) THEN @ + 1 ELSE @]
           /\ last' = [b |-> b, obj |-> obj, data |-> data, result |-> out.result,
                       raised |-> out.raised, match |-> out.match,
                       scanned |-> out.scanned, populatedNow |-> NeedsFetch(b)]
    /\ UNCHANGED <<platform, fuzzEmpty>>
    /\ UNCHANGED pvars

\* the process ends and a new one starts: the Backfiller objects are built anew
\* by the conferences module; the cache file stays
NewProcess ==
    /\ last.b # "none"
    /\ bf' = [b \in Backfillers |-> [bf[b] EXCEPT !._data = NullData]]
    /\ populated' = [b \in Backfillers |-> 0]
    /\ last' = NoCall
    /\ UNCHANGED <<platform, cacheFile, fuzzEmpty>>
    /\ UNCHANGED pvars

\* what the second playlist can hold
SecondListings ==
    {NullData, Listing(<<>>), Listing(<<Entry(<<"A", "b", "c", "d", "x">>, UrlB)>>)}

BInit ==
    /\ platform \in {f \in [PlaylistUrls -> Listings \cup {NullData}] :
                        f["U2"] \in SecondListings}
    /\ cacheFile = NoCache
    /\ bf = [b \in Backfillers |->
                [conference_name |-> ConferenceName, url |-> UrlOf(b), _data |-> NullData]]
    /\ fuzzEmpty \in {0, 100}
    /\ populated = [b \in Backfillers |-> 0]
    /\ last = NoCall

\* the backfiller is not in use
BIdle ==
    /\ platform = [u \in PlaylistUrls |-> NullData]
    /\ cacheFile = NoCache
    /\ bf = [b \in Backfillers |->
                [conference_name |-> ConferenceName, url |-> UrlOf(b), _data |-> NullData]]
    /\ fuzzEmpty = 100
    /\ populated = [b \in Backfillers |-> 0]
    /\ last = NoCall

\* no conference import is running
PIdle ==
    /\ pc = "idle"
    /\ conf \in {c \in Conferences : c.downloader = "YouTubeDownloader"}
    /\ net = "ok"
    /\ source = <<>>
    /\ outExisted = FALSE
    /\ scratch = NoScratch
    /\ outdir = NoOutdir
    /\ sub = "none"
    /\ i = 0
    /\ j = 0
    /\ video = NoVideo
    /\ talk_list = <<>>
    /\ w = 0
    /\ err = "none"
    /\ log = <<>>

----------------------------------------------------------------------------
(* Specifications *)

Init == PInit /\ BIdle

Next ==
    \/ PyvidifyEnter
    \/ GitDownload
    \/ JSONAPIDownload
    \/ YouTubeDownload
    \/ TransformBegin
    \/ JSONExtractOpen
    \/ MultiExtractGlob
    \/ LoopLoad
    \/ LoopFilter
    \/ LoopTransform
    \/ LoopPostprocess
    \/ LoopAppend
    \/ ExtractReturn
    \/ WriteTalk
    \/ PyvidifyExit

\* one conference import, from the call of pyvidify to its end
Spec == Init /\ [][Next]_vars

InitBackfill == BInit /\ PIdle

NextBackfill ==
    \/ \E b \in Backfillers, obj \in Talks : BackfillVideoUrl(b, obj)
    \/ NewProcess

\* calls of backfill_video_url on the Backfiller objects, over process runs
SpecBackfill == InitBackfill /\ [][NextBackfill]_vars

----------------------------------------------------------------------------
(* Claims about Conference.pyvidify (checked under Spec) *)

\* the raw records on which transform_talk_json was called
Transformed == {log[n][2] : n \in {m \in 1..Len(log) : log[m][1] = "transform"}}

\* the raw records handed to a postprocess step
Postprocessed == {log[n][2] : n \in {m \in 1..Len(log) : log[m][1] = "post"}}

\* the raw records the extractor yields over the run: those of the source, or
\* none when the document is the body of an error response
Extracted == IF net = "ok" THEN source ELSE <<>>

\* the predicate lets raw record k through
Passes(k) == ~conf.filter_func \/ Extracted[k].keep

\* the indices of the raw records that pass the predicate, in extraction order
PassingIndices ==
    SelectSeq([k \in 1..Len(Extracted) |-> k], LAMBDA k : Passes(k))

\* C1: after pyvidify aborts on an error, the output directory holds nothing
\* this run wrote: no directory, no category.json, no per-talk file.
C1_NoPartialCatalog ==
    pc = "failed" => outdir = NoOutdir

\* C2: the scratch directory exists from before the downloader runs until the
\* transformer is through, and in no terminal state of pyvidify (success, all
\* records filtered out, or an error of the downloader or the transformer)
\* does it still exist.
C2_ScratchScoped ==
    /\ pc \in {"download", "transform", "extract", "write"} => scratch.exists
    /\ pc \in {"done", "failed"} => ~scratch.exists

\* C2 witness: a run that ended normally with every record filtered out
C2_Witness ==
    /\ pc = "done"
    /\ Len(Extracted) = MaxRecords
    /\ talk_list = <<>>
    /\ ~scratch.exists

\* C3: a raw record the predicate rejects is never transformed, never handed to
\* a postprocess step and never emitted; once extraction has returned, the
\* emitted records are the images (first output of the transform query, taken
\* through the postprocess chain) of the records that pass, in extraction order.
C3_FilteredNeverEmitted ==
    /\ \A k \in Transformed \cup Postprocessed : Passes(k)
    /\ \A n \in 1..Len(talk_list) :
           LET r == talk_list[n]
           IN  /\ r.src \in 1..Len(Extracted)
               /\ Passes(r.src)
               /\ r.src \in Transformed
               /\ r.kind = Extracted[r.src].jq.outs[1].kind
               /\ r.title = Extracted[r.src].jq.outs[1].title
               /\ r.trail = conf.postprocess
    /\ \A f \in outdir.videos : Passes(f.content.src)
    /\ pc \in {"write", "done"} =>
           [n \in 1..Len(talk_list) |-> talk_list[n].src] = PassingIndices

\* C3 witness: a finished run in which a record was rejected and a later one emitted
C3_Witness ==
    /\ pc = "done"
    /\ Len(Extracted) = 2
    /\ ~Passes(1)
    /\ Len(talk_list) = 1
    /\ talk_list[1].src = 2

\* C4: after a successful run the output directory holds one per-talk file per
\* emitted record: no two records went to one file name.
C4_OneFilePerRecord ==
    pc = "done" => Cardinality(outdir.videos) = Len(talk_list)

\* the transform query on raw record k yields no output
ZeroResults(k) == ~Extracted[k].jq.error /\ Extracted[k].jq.outs = <<>>

\* the transform query on raw record k yields more than one output
ManyResults(k) == Len(Extracted[k].jq.outs) > 1

\* the transform query on raw record k yields a first output that is no mapping
NotAMapping(k) == Len(Extracted[k].jq.outs) >= 1 /\ Extracted[k].jq.outs[1].kind # "map"

C6_NoTransformOnHttpError ==
    (conf.downloader = "JSONAPIDownloader" /\ net \in {"http_error_html", "http_error_json"}) =>
        /\ scratch.files \notin {"http_error_html", "http_error_json"}
        /\ pc \notin {"transform", "extract", "write", "done"}
        /\ ~outdir.created

----------------------------------------------------------------------------
(* Claims about YouTubeLinkBackfiller (checked under SpecBackfill) *)

\* C7: a Backfiller only ever matches against the listing of its own URL: the
\* listing fetch_data hands to the scan is the one the platform holds under
\* that Backfiller's URL.
C7_ListingOfOwnUrl ==
    (last.b # "none" /\ last.data.kind = "dict") => last.data = platform[bf[last.b].url]

\* C8: in one process run a Backfiller populates its listing at most once,
\* whatever the first fetch returned.
C8_PopulatedAtMostOnce ==
    \A b \in Backfillers : populated[b] <= 1

\* entry k of the listing of the last call is not None and scores above the threshold
LastQualifies(k) ==
    /\ ~last.data.entries[k].null
    /\ FuzzRatio(NormalizeTitle(last.obj.title),
                 NormalizeTitle(ReplaceAll(Replace(last.data.entries[k].title,
                                                   bf[last.b].conference_name),
                                           last.obj.speakers)),
                 fuzzEmpty) > 75

\* C9: backfill_video_url attaches the URL of the first entry, in listing order,
\* that is not None and scores strictly above 75 against the normalized talk
\* title, and stops there; an entry scoring 75 or less is never selected, nor
\* a later entry in place of an earlier one that qualifies.
C9_FirstMatchWins ==
    (last.b # "none" /\ last.data.kind = "dict") =>
        LET n == Len(last.data.entries)
        IN  /\ last.match \in 0..n
            /\ last.match = 0 =>
                   /\ \A k \in 1..n : ~LastQualifies(k)
                   /\ last.result = last.obj
            /\ last.match > 0 =>
                   /\ LastQualifies(last.match)
                   /\ \A k \in 1..(last.match - 1) : ~LastQualifies(k)
                   /\ last.scanned = last.match
                   /\ last.result.videos =
                          <<[type |-> "youtube",
                             url |-> last.data.entries[last.match].webpage_url]>>

\* C9 witness: the first entry was taken although the second one scores higher
C9_Witness ==
    /\ last.b # "none" /\ last.data.kind = "dict"
    /\ Len(last.data.entries) = 2
    /\ last.match = 1
    /\ ~last.data.entries[2].null
    /\ Score(last.data.entries[2], bf[last.b].conference_name, last.obj)
         > Score(last.data.entries[1], bf[last.b].conference_name, last.obj)
    /\ last.result.videos = <<[type |-> "youtube", url |-> last.data.entries[1].webpage_url]>>

\* entry k of the listing of the last call is not None and its normalized title
\* equals the normalized title of the talk
LastExact(k) ==
    /\ ~last.data.entries[k].null
    /\ NormalizeTitle(ReplaceAll(Replace(last.data.entries[k].title,
                                         bf[last.b].conference_name),
                                 last.obj.speakers))
         = NormalizeTitle(last.obj.title)

\* C10 as claimed, on the talks whose normalized title is not empty: when the
\* listing holds an entry whose normalized title equals the normalized talk
\* title, the talk's videos entry holds the URL of such an entry, not that of
\* another entry.
C10_Original ==
    (last.b # "none" /\ last.data.kind = "dict" /\ NormalizeTitle(last.obj.title) # <<>>) =>
        ((\E k \in 1..Len(last.data.entries) : LastExact(k)) =>
            \E k \in 1..Len(last.data.entries) :
                /\ LastExact(k)
                /\ last.result.videos =
                       <<[type |-> "youtube", url |-> last.data.entries[k].webpage_url]>>)

\* C10 as amended: when the listing holds an entry whose normalized title equals
\* the normalized talk title and that title is not empty, the talk's videos
\* entry is set to the URL of the first entry, in listing order, that scores
\* above 75: an entry at or before the exact one, and the exact one itself when
\* no entry before it scores above 75.
C10_ExactMatchEnriches ==
    (last.b # "none" /\ last.data.kind = "dict") =>
        \A k \in 1..Len(last.data.entries) :
            (LastExact(k) /\ NormalizeTitle(last.obj.title) # <<>>) =>
                /\ last.match \in 1..k
                /\ last.result.videos =
                       <<[type |-> "youtube",
                          url |-> last.data.entries[last.match].webpage_url]>>
                /\ (\A m \in 1..(k - 1) : ~LastQualifies(m)) => last.match = k

\* C10 witness: an exact entry stands second, behind an inexact one that scores
\* above 75 and has another URL, and the first one's URL was attached
C10_Witness ==
    /\ last.b # "none" /\ last.data.kind = "dict"
    /\ Len(last.data.entries) = 2
    /\ LastExact(2) /\ ~LastExact(1)
    /\ NormalizeTitle(last.obj.title) # <<>>
    /\ last.match = 1
    /\ last.data.entries[1].webpage_url # last.data.entries[2].webpage_url
    /\ last.result.videos = <<[type |-> "youtube", url |-> last.data.entries[1].webpage_url]>>

\* C11: when no entry of the listing scores above 75 (the listing may be empty
\* or hold only None entries), backfill_video_url returns the talk record with
\* every field as it was, an existing videos or thumbnail_url value included,
\* and raises nothing.
C11_PassThrough ==
    (/\ last.b # "none"
     /\ last.data.kind = "dict"
     /\ \A k \in 1..Len(last.data.entries) : ~LastQualifies(k)) =>
        /\ last.raised = "none"
        /\ last.result = last.obj
        /\ last.result.videos = last.obj.videos
        /\ last.result.thumbnail_url = last.obj.thumbnail_url
        /\ last.scanned = Len(last.data.entries)

\* C11 witness: a talk that has a video and a thumbnail went through a listing
\* of a None entry and an entry that scores too low, and came back unchanged
C11_Witness ==
    /\ last.b # "none" /\ last.data.kind = "dict"
    /\ Len(last.data.entries) = 2
    /\ last.data.entries[1].null
    /\ ~last.data.entries[2].null
    /\ ~LastQualifies(2)
    /\ last.obj.videos # <<>>
    /\ last.obj.thumbnail_url # <<>>
    /\ last.raised = "none"
    /\ last.result = last.obj

\* the calls made for raw record k after the predicate, in the order they were made
RecordLog(k) == SelectSeq(log, LAMBDA e : e[2] = k /\ e[1] # "filter")

\* the calls a record that is emitted goes through: the transform query, every
\* postprocess step once in declared order, then the append
FullRecordLog(k) ==
    <<<<"transform", k, 0>>>>
    \o [n \in 1..Len(conf.postprocess) |-> <<"post", k, n>>]
    \o <<<<"append", k, 0>>>>

\* s is an initial part of t
IsPrefix(s, t) == Len(s) <= Len(t) /\ s = SubSeq(t, 1, Len(s))

\* C12: for a record that passes the predicate the postprocess steps run once
\* each, in declared order, after the transform query and before the record is
\* emitted; each step is given what the step before it returned, and the
\* emitted record is what the last step returned (the transform result when
\* there is no step).
C12_PostprocessInOrder ==
    /\ \A k \in 1..Len(Extracted) : IsPrefix(RecordLog(k), FullRecordLog(k))
    /\ (pc = "extract" /\ sub = "post") =>
           /\ video.src = i
           /\ j \in 1..(Len(conf.postprocess) + 1)
           /\ video.trail = SubSeq(conf.postprocess, 1, j - 1)
           /\ RecordLog(i) = SubSeq(FullRecordLog(i), 1, j)
    /\ \A n \in 1..Len(talk_list) :
           LET r == talk_list[n]
           IN  /\ RecordLog(r.src) = FullRecordLog(r.src)
               /\ r.trail = conf.postprocess
               /\ r.kind = Extracted[r.src].jq.outs[1].kind
               /\ r.title = Extracted[r.src].jq.outs[1].title

\* C12 witness: a run has ended in which a record went through a chain of two
\* different steps and was emitted, after a record that was rejected
C12_Witness ==
    /\ pc = "done"
    /\ conf.postprocess = <<"convert", "backfill">>
    /\ Len(talk_list) = 1
    /\ talk_list[1].src = 2
    /\ talk_list[1].trail = <<"convert", "backfill">>
    /\ RecordLog(2) = <<<<"transform", 2, 0>>, <<"post", 2, 1>>, <<"post", 2, 2>>,
                        <<"append", 2, 0>>>>

====
